---- MODULE Spec2Model ----
(***************************************************************************)
(* Model of css_editor.py (ColorSchemeCSSEditor): the commands that pull a *)
(* CSS string out of the "globals" section of a color scheme into a        *)
(* scratch view, write it back, and keep the marked regions of the source  *)
(* view consistent while both sides are edited, saved and closed.          *)
(*                                                                         *)
(* A buffer is a sequence of characters.  The names of JSON keys are       *)
(* single characters of the alphabet ("globals", "popup_css", ...), every  *)
(* other character stands for itself.  Regions are half open offsets       *)
(* [a, b) as in the host API.                                              *)
(***************************************************************************)
EXTENDS Integers, Sequences, FiniteSets, TLC

----------------------------------------------------------------------------
(* Program constants                                                       *)

CSS_TYPES == <<"popup_css", "phantom_css", "sheet_css">>

Types == {CSS_TYPES[i] : i \in 1..Len(CSS_TYPES)}

COLOR_SCHEME_EXT == ".sublime-color-scheme"

QUOTE == "\""

BSLASH == "\\"

WhiteSpace == {" ", "\n", "\t"}

----------------------------------------------------------------------------
(* Generic helpers on sequences and regions                                *)

Reg(a, b) == [a |-> a, b |-> b]

RSize(r) == IF r.b >= r.a THEN r.b - r.a ELSE r.a - r.b

Min(x, y) == IF x <= y THEN x ELSE y

Max(x, y) == IF x >= y THEN x ELSE y

\* view.substr(region)
Substr(txt, r) == SubSeq(txt, Min(r.a, r.b) + 1, Max(r.a, r.b))

\* view.substr(point): the character at an offset, "" past the end
CharAt(txt, pt) == IF pt >= 0 /\ pt < Len(txt) THEN txt[pt + 1] ELSE ""

\* the buffer with [a, b) replaced by new
Splice(txt, a, b, new) == SubSeq(txt, 1, a) \o new \o SubSeq(txt, b + 1, Len(txt))

----------------------------------------------------------------------------
(* The host's JSON syntax: the scopes find_by_selector answers from.       *)
(* stack: one entry per open mapping (its phase), str: the string the      *)
(* scanner is in, esc: the previous character was a backslash.             *)

NV(stack) == Cardinality({i \in 1..Len(stack) : stack[i] = "inval"})

SetTop(stack, ph) == [stack EXCEPT ![Len(stack)] = ph]

Pop(stack) ==
    LET s == SubSeq(stack, 1, Len(stack) - 1)
    IN  IF Len(s) > 0 /\ s[Len(s)] = "inval" THEN SetTop(s, "afterval") ELSE s

Cls(k, v, b) == [k |-> k, v |-> v, b |-> b]

LexState(stack, str, esc) == [stack |-> stack, str |-> str, esc |-> esc]

\* one character inside a string
LexInString(ch, s) ==
    LET cls == IF s.str = "key" THEN Cls(Len(s.stack), NV(s.stack), FALSE)
               ELSE Cls(0, NV(s.stack), FALSE)
        closed == IF s.str = "val" THEN SetTop(s.stack, "afterval") ELSE s.stack
    IN  IF s.esc THEN <<cls, LexState(s.stack, s.str, FALSE)>>
        ELSE IF ch = BSLASH THEN <<cls, LexState(s.stack, s.str, TRUE)>>
        ELSE IF ch = QUOTE \/ ch = "\n" THEN <<cls, LexState(closed, "none", FALSE)>>
        ELSE <<cls, s>>

\* one character outside of any string
LexOutside(ch, s) ==
    LET st == s.stack
        plain == Cls(0, NV(st), FALSE)
        top == IF Len(st) = 0 THEN "top" ELSE st[Len(st)]
        closeMap == <<plain, LexState(Pop(st), "none", FALSE)>>
    IN  CASE top = "top" ->
               IF ch = "{" THEN <<Cls(0, 0, TRUE), LexState(<<"body">>, "none", FALSE)>>
               ELSE IF ch = QUOTE THEN <<plain, LexState(st, "top", FALSE)>>
               ELSE <<plain, s>>
          [] top = "body" ->
               IF ch = "}" THEN closeMap
               ELSE IF ch = QUOTE
                    THEN <<Cls(Len(st), NV(st), FALSE), LexState(st, "key", FALSE)>>
               ELSE IF ch = ":" THEN <<plain, LexState(SetTop(st, "expval"), "none", FALSE)>>
               ELSE <<plain, s>>
          [] top = "expval" ->
               IF ch \in WhiteSpace THEN <<plain, s>>
               ELSE IF ch = "}" THEN closeMap
               ELSE IF ch = QUOTE
                    THEN <<Cls(0, NV(st) + 1, FALSE),
                           LexState(SetTop(st, "inval"), "val", FALSE)>>
               ELSE IF ch = "{"
                    THEN <<Cls(0, NV(st) + 1, TRUE),
                           LexState(Append(SetTop(st, "inval"), "body"), "none", FALSE)>>
               ELSE <<plain, LexState(SetTop(st, "body"), "none", FALSE)>>
          [] OTHER -> \* afterval: the value is complete, a separator is expected
               IF ch \in WhiteSpace THEN <<plain, s>>
               ELSE IF ch = "}" THEN closeMap
               ELSE <<plain, LexState(SetTop(st, "body"), "none", FALSE)>>

LexStep(ch, s) == IF s.str # "none" THEN LexInString(ch, s) ELSE LexOutside(ch, s)

RECURSIVE LexFrom(_, _, _)
LexFrom(txt, i, s) ==
    IF i > Len(txt) THEN <<>>
    ELSE LET r == LexStep(txt[i], s)
         IN  <<r[1]>> \o LexFrom(txt, i + 1, r[2])

\* the scope class of every character of the buffer
Scopes(txt) == LexFrom(txt, 1, LexState(<<>>, "none", FALSE))

\* the maximal runs of characters whose index is in the set idx, in document order
RECURSIVE Runs(_, _, _, _)
Runs(idx, i, n, start) ==
    IF i > n THEN (IF start >= 0 THEN <<Reg(start, n)>> ELSE <<>>)
    ELSE IF i \in idx
         THEN Runs(idx, i + 1, n, IF start >= 0 THEN start ELSE i - 1)
         ELSE (IF start >= 0 THEN <<Reg(start, i - 1)>> ELSE <<>>)
              \o Runs(idx, i + 1, n, -1)

\* view.find_by_selector(selector), sc being the scopes of the buffer
find_by_selector(sc, selector) ==
    LET n == Len(sc)
        hit(c) ==
            CASE selector = "meta.mapping.key - (meta.mapping.value meta.mapping.key)"
                     -> c.k >= 1 /\ c.v = 0
              [] selector = "meta.mapping.value meta.mapping.key"
                     -> c.k >= 1 /\ c.v >= 1
              [] selector = "meta.mapping.value"
                     -> c.v >= 1
              [] selector = "meta.mapping.value meta.mapping.value"
                     -> c.v >= 2
              [] selector = "punctuation.section.mapping.begin.json"
                     -> c.b
              [] OTHER -> FALSE
    IN  Runs({i \in 1..n : hit(sc[i])}, 1, n, -1)

----------------------------------------------------------------------------
(* sublime.encode_value / sublime.decode_value on strings                  *)

EscapeChar(c) ==
    CASE c = QUOTE -> <<BSLASH, QUOTE>>
      [] c = BSLASH -> <<BSLASH, BSLASH>>
      [] c = "\n" -> <<BSLASH, "n">>
      [] c = "\t" -> <<BSLASH, "t">>
      [] OTHER -> <<c>>

RECURSIVE EscapeAll(_)
EscapeAll(s) == IF s = <<>> THEN <<>> ELSE EscapeChar(Head(s)) \o EscapeAll(Tail(s))

\* an encoder that quotes the text without escaping it
encode_value_raw(s) == <<QUOTE>> \o s \o <<QUOTE>>

\* sublime.encode_value(data) for a string
encode_value(s) == <<QUOTE>> \o EscapeAll(s) \o <<QUOTE>>

Unescape(c) ==
    CASE c = "n" -> <<"\n">>
      [] c = "t" -> <<"\t">>
      [] c = QUOTE -> <<QUOTE>>
      [] c = BSLASH -> <<BSLASH>>
      [] c = "/" -> <<"/">>
      [] OTHER -> <<>>

Failed == [ok |-> FALSE, val |-> <<>>]

\* the body of a string literal from character i on; fails on a bad escape,
\* a raw line break, a missing closing quote or text after the closing quote
RECURSIVE DecodeBody(_, _, _)
DecodeBody(s, i, acc) ==
    IF i > Len(s) THEN Failed
    ELSE IF s[i] = QUOTE THEN (IF i = Len(s) THEN [ok |-> TRUE, val |-> acc] ELSE Failed)
    ELSE IF s[i] = "\n" THEN Failed
    ELSE IF s[i] = BSLASH
         THEN IF i + 1 > Len(s) \/ Unescape(s[i + 1]) = <<>> THEN Failed
              ELSE DecodeBody(s, i + 2, acc \o Unescape(s[i + 1]))
    ELSE DecodeBody(s, i + 1, Append(acc, s[i]))

RECURSIVE StripLeft(_)
StripLeft(s) == IF s # <<>> /\ Head(s) \in WhiteSpace THEN StripLeft(Tail(s)) ELSE s

RECURSIVE StripRight(_)
StripRight(s) ==
    IF s # <<>> /\ s[Len(s)] \in WhiteSpace THEN StripRight(SubSeq(s, 1, Len(s) - 1)) ELSE s

\* sublime.decode_value(data) where data is expected to be a string literal
decode_value(data) ==
    LET s == StripRight(StripLeft(data))
    IN  IF s = <<>> \/ Head(s) # QUOTE THEN Failed ELSE DecodeBody(s, 2, <<>>)

----------------------------------------------------------------------------
(* ColorCommandBase: locating keys and their values                        *)

NoRegion == Reg(0, 0)

KeyLiteral(key) == <<QUOTE, key, QUOTE>>

\* find_key_region: the first region whose text is the quoted key, <<>> for None
RECURSIVE find_key_region(_, _, _)
find_key_region(txt, key, key_regions) ==
    IF key_regions = <<>> THEN <<>>
    ELSE IF Substr(txt, Head(key_regions)) = KeyLiteral(key) THEN <<Head(key_regions)>>
    ELSE find_key_region(txt, key, Tail(key_regions))

\* bisect(v_points, x): the number of points that are <= x (v_points is sorted)
bisect(v_points, x) == Cardinality({i \in 1..Len(v_points) : v_points[i] <= x})

\* find_key_value_region: value_regions[bisect(...)], <<>> when the index is
\* out of range (the list index raises IndexError)
find_key_value_region(key_region, value_regions) ==
    LET v_points == [i \in 1..Len(value_regions) |-> Min(value_regions[i].a, value_regions[i].b)]
        idx == bisect(v_points, key_region.a)
    IN  IF idx + 1 <= Len(value_regions) THEN <<value_regions[idx + 1]>> ELSE <<>>

\* Results of the locator functions: st is "found", "none" (the function
\* returns None or an empty list) or "raise" (IndexError escapes).
LocFound(k, v) == [st |-> "found", key |-> k, val |-> v]

LocNone == [st |-> "none", key |-> NoRegion, val |-> NoRegion]

LocRaise == [st |-> "raise", key |-> NoRegion, val |-> NoRegion]

get_global_region(txt, sc) ==
    LET keys == find_by_selector(sc, "meta.mapping.key - (meta.mapping.value meta.mapping.key)")
        global_key == find_key_region(txt, "globals", keys)
        values == find_by_selector(sc, "meta.mapping.value")
    IN  IF global_key = <<>> THEN LocNone
        ELSE LET v == find_key_value_region(global_key[1], values)
             IN  IF v = <<>> THEN LocRaise ELSE LocFound(global_key[1], v[1])

\* the (key, value) pair of one key of key_list, as get_global_key_values finds it
KeyValueOf(txt, keys, values, key) ==
    LET key_region == find_key_region(txt, key, keys)
    IN  IF key_region = <<>> THEN LocNone
        ELSE LET v == find_key_value_region(key_region[1], values)
             IN  IF v = <<>> THEN LocRaise ELSE LocFound(key_region[1], v[1])

PairLess(p, q) ==
    \/ p.key.a < q.key.a
    \/ p.key.a = q.key.a /\ p.key.b < q.key.b
    \/ p.key = q.key /\ (p.val.a < q.val.a \/ (p.val.a = q.val.a /\ p.val.b < q.val.b))

\* sorted(result) for a list of pairs given as a set
RECURSIVE SortPairs(_)
SortPairs(ps) ==
    IF ps = {} THEN <<>>
    ELSE LET m == CHOOSE p \in ps : \A q \in ps \ {p} : PairLess(p, q) \/ p = q
         IN  <<m>> \o SortPairs(ps \ {m})

\* get_global_key_values(key_list): [st, list]; st is "raise" when a value lookup raises
get_global_key_values(txt, sc, key_list) ==
    LET keys == find_by_selector(sc, "meta.mapping.value meta.mapping.key")
        values == find_by_selector(sc, "meta.mapping.value meta.mapping.value")
        res == [i \in 1..Len(key_list) |-> KeyValueOf(txt, keys, values, key_list[i])]
        found == {res[i] : i \in {j \in 1..Len(key_list) : res[j].st = "found"}}
    IN  IF \E i \in 1..Len(key_list) : res[i].st = "raise"
        THEN [st |-> "raise", list |-> <<>>]
        ELSE [st |-> "ok", list |-> SortPairs(found)]

global_css_key(txt, sc, css_type) ==
    LET g == get_global_region(txt, sc) IN
    IF g.st = "raise" THEN LocRaise
    ELSE IF g.st = "found"
         THEN LET result == get_global_key_values(txt, sc, <<css_type>>)
              IN  IF result.st = "raise" THEN LocRaise
                  ELSE IF result.list # <<>> THEN result.list[1]
                  ELSE LocNone
    ELSE LocNone

\* is_valid_css_region with a minimum size of one character
is_valid_css_region_min1(txt, regions) ==
    IF Len(regions) # 1 THEN FALSE
    ELSE LET r == regions[1]
         IN  RSize(r) >= 1 /\ \A pt \in {r.a, r.b - 1} : CharAt(txt, pt) = QUOTE

\* is_valid_css_region(view, regions)
is_valid_css_region(txt, regions) ==
    IF Len(regions) # 1 THEN FALSE
    ELSE LET r == regions[1]
         IN  RSize(r) >= 2 /\ \A pt \in {r.a, r.b - 1} : CharAt(txt, pt) = QUOTE

----------------------------------------------------------------------------
(* Bounds of the model                                                     *)

\* derived (SubCSS) views that can be open at once
MaxSubViews == 2

\* changes the user makes to the text of views: typing in a derived view,
\* deleting in a source view, adding a key
MaxEdits == 2

\* check_regions timeouts that can be armed and not yet fired
MaxTimers == 1

\* length of the text typed into a derived view
MaxLen == 1

----------------------------------------------------------------------------
(* State                                                                   *)

\* the source views (files opened by the user) and the derived view ids
Docs == {1, 2}

SubIds == 3..(2 + MaxSubViews)

InstIds == 1..(MaxTimers + 2)

Groups == {0, 1}

VARIABLES
    text,       \* text[d]: the buffer of source view d
    regions,    \* regions[d][t]: view.get_regions(SUBCSS_REGION(t)) of source view d
    count,      \* count[d]: the CSS_SUBVIEW_COUNT setting of d, <<>> when absent
    views,      \* the open views in the order of window.views()
    sub,        \* sub[v]: the derived view v (its settings and its buffer)
    selected,   \* the sheets that are selected in their group
    group,      \* group[v]: the group the sheet of view v is in
    inst,       \* inst[d]: the live CSSRemoveDeletedRegionsEventListener of d, 0 if none
    pending,    \* pending[d][i]: the pending attribute of listener instance i
    timers,     \* the armed check_regions timeouts, oldest first
    saves,      \* saves[d]: a 'save' callback is scheduled for d and has not run
    status,     \* the status message the last handler logged, "none" if none
    loc,        \* loc[d][t]: global_css_key(t) on the current text of d
    cfg,        \* the package settings and trim_trailing_white_space_on_save
    file_name,  \* file_name[d]: view.file_name() as <<stem, extension>>
    read_only,  \* read_only[d]: view.is_read_only()
    room,       \* the number of armed timeouts the queue may hold
    num_groups, \* window.num_groups()
    edits       \* number of changes the user made to the text of views

vars == <<text, regions, count, views, sub, selected, group, inst, pending,
          timers, saves, status, loc, cfg, file_name, read_only, room, num_groups, edits>>

\* the part of the state the handlers work on
World == [text |-> text, regions |-> regions, count |-> count, views |-> views,
          sub |-> sub, selected |-> selected, group |-> group, inst |-> inst,
          pending |-> pending, timers |-> timers, saves |-> saves, msg |-> "none"]

NoSub == [open |-> FALSE, type |-> "", source |-> <<>>, text |-> <<>>]

NoView == 0

cs_setting(key) == cfg[key]

SUBCSS_REGION(css_type) == css_type

IsOpen(w, v) == \E i \in 1..Len(w.views) : w.views[i] = v

IndexOf(seq, x) == CHOOSE i \in 1..Len(seq) : seq[i] = x

Remove(seq, x) == SelectSeq(seq, LAMBDA y : y # x)

log(w, message) == [w EXCEPT !.msg = message]

----------------------------------------------------------------------------
(* Host behaviour: listeners, tracked regions, buffers                     *)

CountOf(w, d) == IF w.count[d] = <<>> THEN 0 ELSE w.count[d][1]

\* the listener instance ids of d that armed timeouts still refer to
Referenced(w, d) == {w.timers[i].i : i \in {j \in 1..Len(w.timers) : w.timers[j].d = d}}

\* the host re-evaluates is_applicable when the settings of a view change:
\* the listener is dropped when the counter goes away, a new one (pending = 0,
\* the class attribute) is made when it appears
check_view_event_listeners(w, d) ==
    IF w.count[d] = <<>> THEN
        IF w.inst[d] = 0 THEN w
        ELSE [w EXCEPT !.inst[d] = 0,
                       !.pending[d][w.inst[d]] =
                           IF w.inst[d] \in Referenced(w, d) THEN @ ELSE 0]
    ELSE IF w.inst[d] # 0 \/ ~IsOpen(w, d) THEN w
    ELSE LET i == CHOOSE j \in InstIds \ Referenced(w, d) :
                      \A k \in InstIds \ Referenced(w, d) : j <= k
         IN  [w EXCEPT !.inst[d] = i, !.pending[d][i] = 0]

\* on_modified_async of the live listener of d, if there is one
on_modified_async(w, d) ==
    IF w.inst[d] = 0 THEN w
    ELSE [w EXCEPT !.pending[d][w.inst[d]] = @ + 1,
                   !.timers = Append(@, [d |-> d, i |-> w.inst[d]])]

\* how the host moves a region when n characters are inserted at offset p
AdjInsert(r, p, n) ==
    IF r.a = r.b THEN (IF r.a > p THEN Reg(r.a + n, r.b + n) ELSE r)
    ELSE Reg(IF r.a >= p THEN r.a + n ELSE r.a, IF r.b > p THEN r.b + n ELSE r.b)

\* how the host moves a region when the n characters [p, p + n) are erased
AdjErase(r, p, n) ==
    LET f(x) == IF x <= p THEN x ELSE IF x >= p + n THEN x - n ELSE p
    IN  Reg(f(r.a), f(r.b))

\* the regions of view d after n characters were inserted at offset p
ShiftRegions(w, d, p, n) ==
    [w EXCEPT !.regions[d] =
        [t \in Types |-> [i \in 1..Len(w.regions[d][t]) |-> AdjInsert(w.regions[d][t][i], p, n)]]]

\* the regions of view d after the n characters [p, p + n) were erased
ShrinkRegions(w, d, p, n) ==
    [w EXCEPT !.regions[d] =
        [t \in Types |-> [i \in 1..Len(w.regions[d][t]) |-> AdjErase(w.regions[d][t][i], p, n)]]]

\* view.insert(edit, pt, chars)
view_insert(w, d, pt, chars) ==
    LET w1 == [w EXCEPT !.text[d] = Splice(@, pt, pt, chars)]
        w2 == ShiftRegions(w1, d, pt, Len(chars))
    IN  on_modified_async(w2, d)

\* view.erase(edit, Region(pt, pt + n))
view_erase(w, d, pt, n) ==
    LET w1 == [w EXCEPT !.text[d] = Splice(@, pt, pt + n, <<>>)]
        w2 == ShrinkRegions(w1, d, pt, n)
    IN  on_modified_async(w2, d)

\* view.replace(edit, region, chars): the common length is overwritten in
\* place, the rest of the old text is erased or the rest of the new text is
\* inserted at the end of the old text
view_replace(w, d, region, chars) ==
    LET a == region.a
        b == region.b
        old == b - a
        new == Len(chars)
        w1 == [w EXCEPT !.text[d] = Splice(@, a, b, chars)]
        w2 == IF new <= old
              THEN ShrinkRegions(w1, d, a + new, old - new)
              ELSE ShiftRegions(w1, d, b, new - old)
    IN  on_modified_async(w2, d)

add_regions(w, d, key, regs) == [w EXCEPT !.regions[d][key] = regs]

erase_regions(w, d, key) == [w EXCEPT !.regions[d][key] = <<>>]

----------------------------------------------------------------------------
(* Module level functions                                                  *)

\* find_css_view(source_view, css_type); name is source_view.file_name()
RECURSIVE FirstCssView(_, _, _, _)
FirstCssView(w, vs, name, css_type) ==
    IF vs = <<>> THEN NoView
    ELSE IF Head(vs) \in SubIds /\ w.sub[Head(vs)].type = css_type
            /\ name = w.sub[Head(vs)].source
         THEN Head(vs)
    ELSE FirstCssView(w, Tail(vs), name, css_type)

find_css_view(w, name, css_type) == FirstCssView(w, w.views, name, css_type)

\* find_source_view(sub_view)
RECURSIVE FirstSourceView(_, _)
FirstSourceView(vs, target_filename) ==
    IF vs = <<>> THEN NoView
    ELSE IF Head(vs) \in Docs /\ file_name[Head(vs)] # <<>>
            /\ file_name[Head(vs)] = target_filename
         THEN Head(vs)
    ELSE FirstSourceView(Tail(vs), target_filename)

find_source_view(w, sub_view) == FirstSourceView(w.views, w.sub[sub_view].source)

\* get_sheet_group_for_view(view)
get_sheet_group_for_view(w, v) == w.group[v]

\* update_css_child_count that keeps a counter of zero
update_css_child_count_keeps_zero(w, d, delta) ==
    LET current == CountOf(w, d) + delta
        w1 == IF current < 0 THEN [w EXCEPT !.count[d] = <<>>]
              ELSE [w EXCEPT !.count[d] = <<current>>]
    IN  check_view_event_listeners(w1, d)

\* update_css_child_count(parent_view, delta)
update_css_child_count(w, d, delta) ==
    LET current == CountOf(w, d) + delta
        w1 == IF current <= 0 THEN [w EXCEPT !.count[d] = <<>>]
              ELSE [w EXCEPT !.count[d] = <<current>>]
    IN  check_view_event_listeners(w1, d)

\* global_css_key(css_type) in view d; loc holds the answers for the text of
\* the current state
Locate(w, d, css_type) ==
    IF w.text[d] = text[d] THEN loc[d][css_type]
    ELSE global_css_key(w.text[d], Scopes(w.text[d]), css_type)

\* is_editable_color_scheme
is_editable_color_scheme(d) ==
    IF read_only[d] THEN FALSE
    ELSE IF file_name[d] = <<>> \/ file_name[d][2] # COLOR_SCHEME_EXT THEN FALSE
    ELSE TRUE

----------------------------------------------------------------------------
(* EditColorSchemeCssCommand                                               *)

\* the smallest id no open derived view uses
FreshSub(w) == CHOOSE v \in SubIds : ~w.sub[v].open /\ \A u \in SubIds : ~w.sub[u].open => v <= u

InsertAfter(seq, x, y) ==
    LET i == IndexOf(seq, x) IN SubSeq(seq, 1, i) \o <<y>> \o SubSeq(seq, i + 1, Len(seq))

\* window.select_sheets(sheets): the groups of the given sheets show exactly them
select_sheets(w, sheets) ==
    [w EXCEPT !.selected =
        {v \in @ : \A s \in sheets : w.group[v] # w.group[s]} \cup sheets]

\* window.new_file(flags): the new tab is in the group of the command's view,
\* either right after it or at the end of the tab bar (pos), and is added to
\* the selection or becomes the only selected sheet of the group
new_file(w, d, v, add_to_selection, pos) ==
    LET w1 == [w EXCEPT !.views = IF pos = "after" THEN InsertAfter(@, d, v) ELSE Append(@, v),
                        !.group[v] = w.group[d],
                        !.sub[v] = [open |-> TRUE, type |-> "", source |-> <<>>, text |-> <<>>]]
    IN  IF add_to_selection THEN [w1 EXCEPT !.selected = @ \cup {v}]
        ELSE select_sheets(w1, {v})

\* create_css_view(css_type, css_data)
create_css_view(w, d, css_type, css_data, pos) ==
    LET temp == FreshSub(w)
        w1 == new_file(w, d, temp, cs_setting("open_as_split"), pos)
    IN  [w1 EXCEPT !.sub[temp].text = css_data,
                   !.sub[temp].type = css_type,
                   !.sub[temp].source = file_name[d]]

\* link_existing_css_view(css_view); group 0 is falsy in the first test
link_existing_css_view(w, d, css_view) ==
    LET grp == get_sheet_group_for_view(w, d)
        sheets == {v \in w.selected : w.group[v] = grp}
    IN  IF grp # 0 /\ grp # get_sheet_group_for_view(w, css_view) THEN w
        ELSE IF d \in sheets /\ css_view \notin sheets
             THEN select_sheets(w, sheets \cup {css_view})
        ELSE w

\* is_enabled without the test for an already marked region
EditIsEnabledWhileMarked(w, d, css_type) ==
    IF css_type \notin Types \/ ~is_editable_color_scheme(d) THEN FALSE
    ELSE Locate(w, d, css_type).st = "found"

\* EditColorSchemeCssCommand.is_enabled(css_type); an exception in the
\* locator leaves the command disabled
EditIsEnabled(w, d, css_type) ==
    IF css_type \notin Types \/ ~is_editable_color_scheme(d) THEN FALSE
    ELSE IF w.regions[d][SUBCSS_REGION(css_type)] # <<>> THEN FALSE
    ELSE Locate(w, d, css_type).st = "found"

\* does run have a view to create (and so needs a free slot of the model)
EditCreates(w, d, css_type) ==
    LET found == Locate(w, d, css_type)
    IN  /\ found.st = "found"
        /\ decode_value(Substr(w.text[d], found.val)).ok
        /\ ~(find_css_view(w, file_name[d], css_type) # NoView /\ cs_setting("open_as_split"))

\* run without the early return on a value that does not decode
EditRunUndecoded(w, d, css_type, pos) ==
    LET found == Locate(w, d, css_type)
        css_region == found.val
        css_data == decode_value(Substr(w.text[d], css_region))
    IN  IF found.st # "found" THEN w
        ELSE LET w1 == add_regions(w, d, SUBCSS_REGION(css_type), <<css_region>>)
                 w2 == update_css_child_count(w1, d, 1)
                 current_sub_view == find_css_view(w2, file_name[d], css_type)
             IN  IF current_sub_view # NoView /\ cs_setting("open_as_split")
                 THEN link_existing_css_view(w2, d, current_sub_view)
                 ELSE create_css_view(w2, d, css_type, css_data.val, pos)

\* EditColorSchemeCssCommand.run(edit, css_type)
EditRun(w, d, css_type, pos) ==
    LET found == Locate(w, d, css_type)
        css_region == found.val
        css_data == decode_value(Substr(w.text[d], css_region))
    IN  IF found.st # "found" THEN w
        ELSE IF ~css_data.ok THEN log(w, "unable to decode")
        ELSE LET w1 == add_regions(w, d, SUBCSS_REGION(css_type), <<css_region>>)
                 w2 == update_css_child_count(w1, d, 1)
                 current_sub_view == find_css_view(w2, file_name[d], css_type)
             IN  IF current_sub_view # NoView /\ cs_setting("open_as_split")
                 THEN link_existing_css_view(w2, d, current_sub_view)
                 ELSE create_css_view(w2, d, css_type, css_data.val, pos)

\* view.run_command('edit_color_scheme_css', ...): run only when enabled
EditCommand(w, d, css_type, pos) ==
    IF EditIsEnabled(w, d, css_type) THEN EditRun(w, d, css_type, pos) ELSE w

----------------------------------------------------------------------------
(* AddColorSchemeCssCommand                                                *)

new_key(css_type) == <<QUOTE, css_type, QUOTE, ":", " ", QUOTE, QUOTE, ",">>

GlobalsStub(css_type) ==
    <<"\n", "\t", QUOTE, "globals", QUOTE, ":", "\n", "\t", "{", "\n", "\t", "\t">>
    \o new_key(css_type) \o <<"\n", "\t", "}", ",">>

\* AddColorSchemeCssCommand.is_enabled(css_type)
AddIsEnabled(w, d, css_type) ==
    IF css_type \notin Types \/ ~is_editable_color_scheme(d) THEN FALSE
    ELSE Locate(w, d, css_type).st = "none"

\* the insertion decided on, with the stub put before the opening brace
AddPlanBeforeBrace(w, d, css_type) ==
    LET txt == w.text[d]
        sc == Scopes(txt)
        g == get_global_region(txt, sc)
        start == find_by_selector(sc, "punctuation.section.mapping.begin.json")
        lst == get_global_key_values(txt, sc, CSS_TYPES)
    IN  IF g.st = "raise" THEN [st |-> "raise", pt |-> 0, txt |-> <<>>]
        ELSE IF g.st = "none"
        THEN IF start = <<>> THEN [st |-> "nowhere", pt |-> 0, txt |-> <<>>]
             ELSE [st |-> "ok", pt |-> start[1].a, txt |-> GlobalsStub(css_type)]
        ELSE IF lst.st = "raise" THEN [st |-> "raise", pt |-> 0, txt |-> <<>>]
        ELSE IF lst.list # <<>>
        THEN [st |-> "ok", pt |-> lst.list[Len(lst.list)].val.b + 1,
              txt |-> <<"\n", "\t", "\t">> \o new_key(css_type)]
        ELSE [st |-> "ok", pt |-> g.val.b - 1,
              txt |-> <<"\t">> \o new_key(css_type) \o <<"\n", "\t">>]

\* the insertion AddColorSchemeCssCommand.run decides on: [st, pt, txt]
AddPlan(w, d, css_type) ==
    LET txt == w.text[d]
        sc == Scopes(txt)
        g == get_global_region(txt, sc)
        start == find_by_selector(sc, "punctuation.section.mapping.begin.json")
        lst == get_global_key_values(txt, sc, CSS_TYPES)
    IN  IF g.st = "raise" THEN [st |-> "raise", pt |-> 0, txt |-> <<>>]
        ELSE IF g.st = "none"
        THEN IF start = <<>> THEN [st |-> "nowhere", pt |-> 0, txt |-> <<>>]
             ELSE [st |-> "ok", pt |-> start[1].a + 1, txt |-> GlobalsStub(css_type)]
        ELSE IF lst.st = "raise" THEN [st |-> "raise", pt |-> 0, txt |-> <<>>]
        ELSE IF lst.list # <<>>
        THEN [st |-> "ok", pt |-> lst.list[Len(lst.list)].val.b + 1,
              txt |-> <<"\n", "\t", "\t">> \o new_key(css_type)]
        ELSE [st |-> "ok", pt |-> g.val.b - 1,
              txt |-> <<"\t">> \o new_key(css_type) \o <<"\n", "\t">>]

\* AddColorSchemeCssCommand.run(edit, css_type)
AddRun(w, d, css_type, pos) ==
    LET plan == AddPlan(w, d, css_type)
    IN  IF plan.st = "raise" THEN w
        ELSE IF plan.st = "nowhere" THEN log(w, "unable to determine where to insert")
        ELSE EditCommand(view_insert(w, d, Min(plan.pt, Len(w.text[d])), plan.txt),
                         d, css_type, pos)

----------------------------------------------------------------------------
(* SaveSubCssSourceCommand and DoSubCssReplaceCommand                      *)

\* the host's trim_trailing_white_space command on a buffer
RECURSIVE trim_trailing_white_space(_)
trim_trailing_white_space(s) ==
    IF s = <<>> THEN <<>>
    ELSE LET rest == trim_trailing_white_space(Tail(s))
         IN  IF Head(s) \in {" ", "\t"} /\ (rest = <<>> \/ Head(rest) = "\n")
             THEN rest
             ELSE <<Head(s)>> \o rest

\* the replace with the region widened when the new text is shorter
DoSubCssReplaceShrinks(w, d, css, css_type) ==
    LET source == w.regions[d][SUBCSS_REGION(css_type)]
    IN  IF source = <<>> \/ ~is_valid_css_region(w.text[d], source)
        THEN IF Len(source) # 1
             THEN log(w, "unable to find the CSS source region")
             ELSE log(update_css_child_count(
                          erase_regions(w, d, SUBCSS_REGION(css_type)), d, -1),
                      "missing or invalid")
        ELSE LET region == source[1]
                 diff == Len(css) - RSize(region)
                 w1 == view_replace(w, d, region, css)
                 w2 == IF cs_setting("save_on_update")
                       THEN [w1 EXCEPT !.saves[d] = TRUE] ELSE w1
             IN  IF diff < 0
                 THEN update_css_child_count(
                          add_regions(w2, d, SUBCSS_REGION(css_type),
                                      <<Reg(region.a, region.b + diff)>>), d, 0)
                 ELSE w2

\* the replace without the validity test of the marked region
DoSubCssReplaceUnchecked(w, d, css, css_type) ==
    LET source == w.regions[d][SUBCSS_REGION(css_type)]
    IN  IF source = <<>> THEN log(w, "unable to find the CSS source region")
        ELSE LET region == source[1]
                 diff == Len(css) - RSize(region)
                 w1 == view_replace(w, d, region, css)
                 w2 == IF cs_setting("save_on_update")
                       THEN [w1 EXCEPT !.saves[d] = TRUE] ELSE w1
             IN  IF diff > 0
                 THEN update_css_child_count(
                          add_regions(w2, d, SUBCSS_REGION(css_type),
                                      <<Reg(region.a, region.b + diff)>>), d, 0)
                 ELSE w2

\* DoSubCssReplaceCommand.run(edit, css, css_type) in source view d
DoSubCssReplaceRun(w, d, css, css_type) ==
    LET source == w.regions[d][SUBCSS_REGION(css_type)]
    IN  IF source = <<>> \/ ~is_valid_css_region(w.text[d], source)
        THEN IF Len(source) # 1
             THEN log(w, "unable to find the CSS source region")
             ELSE log(update_css_child_count(
                          erase_regions(w, d, SUBCSS_REGION(css_type)), d, -1),
                      "missing or invalid")
        ELSE LET region == source[1]
                 diff == Len(css) - RSize(region)
                 w1 == view_replace(w, d, region, css)
                 w2 == IF cs_setting("save_on_update")
                       THEN [w1 EXCEPT !.saves[d] = TRUE] ELSE w1
             IN  IF diff > 0
                 THEN update_css_child_count(
                          add_regions(w2, d, SUBCSS_REGION(css_type),
                                      <<Reg(region.a, region.b + diff)>>), d, 0)
                 ELSE w2

\* save-back that trims the derived view before it looks for the source
SaveSubCssSourceTrimsFirst(w, v) ==
    LET css_type == w.sub[v].type
        source_view == find_source_view(w, v)
        w1 == IF cfg.trim
              THEN [w EXCEPT !.sub[v].text = trim_trailing_white_space(@)] ELSE w
        data == encode_value(w1.sub[v].text)
    IN  IF source_view = NoView THEN log(w1, "unable to find the source file")
        ELSE DoSubCssReplaceRun(w1, source_view, data, css_type)

\* SaveSubCssSourceCommand.run(edit) in derived view v
SaveSubCssSourceRun(w, v) ==
    LET css_type == w.sub[v].type
        source_view == find_source_view(w, v)
        w1 == IF cfg.trim
              THEN [w EXCEPT !.sub[v].text = trim_trailing_white_space(@)] ELSE w
        data == encode_value(w1.sub[v].text)
    IN  IF source_view = NoView THEN log(w, "unable to find the source file")
        ELSE DoSubCssReplaceRun(w1, source_view, data, css_type)

----------------------------------------------------------------------------
(* OverallCssListener: closing views                                       *)

\* the host takes a view out of its window once on_pre_close has returned
RemoveView(w, v) ==
    LET w1 == [w EXCEPT !.views = Remove(@, v), !.selected = @ \ {v}, !.group[v] = 0]
    IN  IF v \in SubIds THEN [w1 EXCEPT !.sub[v] = NoSub]
        ELSE [w1 EXCEPT !.inst[v] = 0,
                        !.pending[v] = [i \in InstIds |->
                            IF i \in Referenced(w, v) THEN w.pending[v][i] ELSE 0]]

\* on_pre_close of a derived view that leaves the regions of the source alone
OnPreCloseSubKeepsMark(w, v) ==
    LET w1 == IF cs_setting("update_on_close") THEN SaveSubCssSourceRun(w, v) ELSE w
        main_view == find_source_view(w1, v)
    IN  IF main_view # NoView
        THEN update_css_child_count(w1, main_view, -1)
        ELSE w1

\* on_pre_close(view) for a view that has the SUBCSS_SOURCE setting
OnPreCloseSub(w, v) ==
    LET w1 == IF cs_setting("update_on_close") THEN SaveSubCssSourceRun(w, v) ELSE w
        css_type == w1.sub[v].type
        main_view == find_source_view(w1, v)
    IN  IF main_view # NoView
        THEN update_css_child_count(
                 erase_regions(w1, main_view, SUBCSS_REGION(css_type)), main_view, -1)
        ELSE w1

\* sub_view.close(): its on_pre_close runs, then the view is gone
CloseSubView(w, v) == RemoveView(OnPreCloseSub(w, v), v)

\* close_subcss_views(view), from the i-th entry of CSS_TYPES on
RECURSIVE close_subcss_views(_, _, _)
close_subcss_views(w, d, i) ==
    IF i > Len(CSS_TYPES) THEN w
    ELSE LET css_type == CSS_TYPES[i]
             sub_view == find_css_view(w, file_name[d], css_type)
         IN  IF w.regions[d][SUBCSS_REGION(css_type)] # <<>> /\ sub_view # NoView
             THEN close_subcss_views(CloseSubView(w, sub_view), d, i + 1)
             ELSE close_subcss_views(w, d, i + 1)

\* on_pre_close(view) and the removal of the view; a derived view has no
\* regions of its own, so close_subcss_views finds nothing to do for it
on_pre_close(w, v) ==
    IF v \in SubIds THEN OnPreCloseSub(w, v) ELSE close_subcss_views(w, v, 1)

CloseViewRun(w, v) == RemoveView(on_pre_close(w, v), v)

----------------------------------------------------------------------------
(* CSSRemoveDeletedRegionsEventListener                                    *)

\* the scan of check_regions, from the i-th entry of CSS_TYPES on
RECURSIVE ScanRegions(_, _, _)
ScanRegions(w, d, i) ==
    IF i > Len(CSS_TYPES) THEN w
    ELSE LET css_type == CSS_TYPES[i]
             regs == w.regions[d][SUBCSS_REGION(css_type)]
         IN  IF regs # <<>> /\ ~is_valid_css_region(w.text[d], regs)
             THEN ScanRegions(update_css_child_count(
                                  erase_regions(w, d, SUBCSS_REGION(css_type)), d, -1),
                              d, i + 1)
             ELSE ScanRegions(w, d, i + 1)

\* check_regions that scans at every timeout, whatever pending is
check_regions_eager(w, d, i) ==
    LET w1 == [w EXCEPT !.pending[d][i] = @ - 1]
    IN  IF ~IsOpen(w1, d) THEN w1
        ELSE ScanRegions(w1, d, 1)

\* check_regions() of listener instance i of view d; a closed view has no regions
check_regions(w, d, i) ==
    LET w1 == [w EXCEPT !.pending[d][i] = @ - 1]
    IN  IF w1.pending[d][i] # 0 THEN w1
        ELSE IF ~IsOpen(w1, d) THEN w1
        ELSE ScanRegions(w1, d, 1)

----------------------------------------------------------------------------
(* Initial states                                                          *)

\* {"globals":{"popup_css":"a ","phantom_css":"a","sheet_css"}}: the last
\* key has no value yet
TextMain ==
    <<"{", QUOTE, "globals", QUOTE, ":", "{",
      QUOTE, "popup_css", QUOTE, ":", QUOTE, "a", " ", QUOTE, ",",
      QUOTE, "phantom_css", QUOTE, ":", QUOTE, "a", QUOTE, ",",
      QUOTE, "sheet_css", QUOTE, "}", "}">>

\* {"globals":{"sheet_css":"\a",}}: the value of sheet_css has a bad escape
TextBadEscape ==
    <<"{", QUOTE, "globals", QUOTE, ":", "{",
      QUOTE, "sheet_css", QUOTE, ":", QUOTE, BSLASH, "a", QUOTE, ",", "}", "}">>

\* {}: a color scheme without a globals section
TextEmpty == <<"{", "}">>

\* a color scheme file without any text
TextBlank == <<>>

\* {"globals":{"y":{"sheet_css":"a"}},"x":{"popup_css":"a"}}: one CSS key
\* two levels inside globals, one inside another section
TextNested ==
    <<"{", QUOTE, "globals", QUOTE, ":", "{",
      QUOTE, "y", QUOTE, ":", "{", QUOTE, "sheet_css", QUOTE, ":", QUOTE, "a", QUOTE, "}",
      "}", ",",
      QUOTE, "x", QUOTE, ":", "{", QUOTE, "popup_css", QUOTE, ":", QUOTE, "a", QUOTE, "}",
      "}">>

\* {"x":{"popup_css":"a"}}: a CSS key and no globals section
TextNoGlobals ==
    <<"{", QUOTE, "x", QUOTE, ":", "{",
      QUOTE, "popup_css", QUOTE, ":", QUOTE, "a", QUOTE, "}", "}">>

DefaultSettings ==
    [open_as_split |-> TRUE, save_on_update |-> TRUE, update_on_close |-> TRUE,
     trim |-> FALSE]

\* the defaults with setting k changed
Flip(k) == [DefaultSettings EXCEPT ![k] = ~@]

MainName == <<"main", COLOR_SCHEME_EXT>>

\* view 1 is a color scheme with two CSS values, view 2 a read-only copy of it
MainFiles ==
    [name |-> <<"other", COLOR_SCHEME_EXT>>, ro |-> TRUE, text |-> <<TextMain, TextMain>>]

\* the files that are open at the start: view 1 is an editable color scheme,
\* view 2 is a read-only color scheme, a file of another type, or a color
\* scheme without text
Files ==
    {MainFiles,
     [name |-> <<"other", ".json">>, ro |-> FALSE, text |-> <<TextBadEscape, TextMain>>],
     [name |-> <<"other", COLOR_SCHEME_EXT>>, ro |-> FALSE, text |-> <<TextEmpty, TextBlank>>]}

\* view 1 has CSS keys inside and outside of globals, view 2 is read-only
\* and has no globals
NestedFiles ==
    [name |-> <<"other", COLOR_SCHEME_EXT>>, ro |-> TRUE, text |-> <<TextNested, TextNoGlobals>>]

\* the characters the user types into a derived view
SubChars == {QUOTE}

RECURSIVE SeqsUpTo(_, _)
SeqsUpTo(S, n) ==
    IF n = 0 THEN {<<>>}
    ELSE LET shorter == SeqsUpTo(S, n - 1)
         IN  shorter \cup {Append(q, c) : q \in shorter, c \in S}

SubTexts == SeqsUpTo(SubChars, MaxLen)

\* the css types a command is asked for; the last one is not in CSS_TYPES
RequestTypes == Types \cup {"other_css"}

LocOf(txt) == LET sc == Scopes(txt) IN [t \in Types |-> global_css_key(txt, sc, t)]

\* the state after the files o were opened in group g of a window with k
\* groups under the settings c, with room for n armed timeouts; e of the
\* MaxEdits changes to the text of views are not explored
Start(o, c, n, k, g, e) ==
    /\ file_name = [d \in Docs |-> IF d = 1 THEN MainName ELSE o.name]
    /\ read_only = [d \in Docs |-> IF d = 1 THEN FALSE ELSE o.ro]
    /\ text = [d \in Docs |-> o.text[d]]
    /\ cfg = c
    /\ room = n
    /\ num_groups = k
    /\ loc = [d \in Docs |-> LocOf(text[d])]
    /\ regions = [d \in Docs |-> [t \in Types |-> <<>>]]
    /\ count = [d \in Docs |-> <<>>]
    /\ views = <<2, 1>>
    /\ sub = [v \in SubIds |-> NoSub]
    /\ selected = {1}
    /\ group = [v \in Docs \cup SubIds |-> IF v \in Docs THEN g ELSE 0]
    /\ inst = [d \in Docs |-> 0]
    /\ pending = [d \in Docs |-> [i \in InstIds |-> 0]]
    /\ timers = <<>>
    /\ saves = [d \in Docs |-> FALSE]
    /\ status = "none"
    /\ edits = e

\* the default settings
Init == \E o \in Files : Start(o, DefaultSettings, MaxTimers, 1, 0, 0)

----------------------------------------------------------------------------
(* Actions                                                                 *)

\* Listener instances are named by age: the instances that armed timeouts
\* still refer to come in the order of their first timeout, the live instance
\* comes last.  Known(timers, d, acc) lists the instances of view d in timers.
RECURSIVE Known(_, _, _)
Known(ts, d, acc) ==
    IF ts = <<>> THEN acc
    ELSE Known(Tail(ts), d,
               IF Head(ts).d = d /\ \A k \in 1..Len(acc) : acc[k] # Head(ts).i
               THEN Append(acc, Head(ts).i) ELSE acc)

\* the instances of view d by age
Order(w, d) ==
    LET known == Known(w.timers, d, <<>>)
    IN  IF w.inst[d] = 0 \/ \E k \in 1..Len(known) : known[k] = w.inst[d] THEN known
        ELSE Append(known, w.inst[d])

\* Rank(order, i) is the name of instance i
Rank(order, i) == IndexOf(order, i)

Renamed(w) ==
    LET order == <<Order(w, 1), Order(w, 2)>>
    IN  [w EXCEPT
            !.timers = [j \in 1..Len(w.timers) |->
                            [d |-> w.timers[j].d,
                             i |-> Rank(order[w.timers[j].d], w.timers[j].i)]],
            !.inst = [d \in Docs |-> IF w.inst[d] = 0 THEN 0 ELSE Rank(order[d], w.inst[d])],
            !.pending = [d \in Docs |-> [k \in InstIds |->
                            IF k <= Len(order[d]) THEN w.pending[d][order[d][k]] ELSE 0]]]

\* the handler left the world v behind and logged v.msg
Install(v) ==
    \E v0 \in {v} : \E w \in {Renamed(v0)} :
    /\ text' = w.text
    /\ regions' = w.regions
    /\ count' = w.count
    /\ views' = w.views
    /\ sub' = w.sub
    /\ selected' = w.selected
    /\ group' = w.group
    /\ inst' = w.inst
    /\ pending' = w.pending
    /\ timers' = w.timers
    /\ saves' = w.saves
    /\ status' = w.msg
    /\ loc' = [d \in Docs |-> IF w.text[d] = text[d] THEN loc[d] ELSE LocOf(w.text[d])]
    /\ UNCHANGED <<cfg, file_name, read_only, room, num_groups>>

\* a command that is not enabled does not run: nothing changes but the
\* status line
Refused ==
    /\ status' = "none"
    /\ UNCHANGED <<text, regions, count, views, sub, selected, group, inst, pending,
                   timers, saves, loc, cfg, file_name, read_only, room, num_groups>>

\* the queues of the model have room for what the handler scheduled
Fits(w) == Len(w.timers) <= room

FreeSlot(w) == \E v \in SubIds : ~w.sub[v].open

\* the zero-delay 'save' callbacks run before the next event
Quiet == \A d \in Docs : ~saves[d]

\* the user asks for edit_color_scheme_css(css_type) on source view d; the
\* command runs only if it is enabled
StartEdit(d, css_type, pos) ==
    /\ Quiet
    /\ IsOpen(World, d)
    /\ IF EditIsEnabled(World, d, css_type)
       THEN /\ IF EditCreates(World, d, css_type) THEN FreeSlot(World) ELSE pos = "after"
            /\ Install(EditRun(World, d, css_type, pos))
       ELSE /\ pos = "after"
            /\ Refused
    /\ UNCHANGED edits

\* the user asks for add_color_scheme_css(css_type) on source view d
AddEdit(d, css_type, pos) ==
    /\ Quiet
    /\ IsOpen(World, d)
    /\ IF AddIsEnabled(World, d, css_type)
       THEN /\ edits < MaxEdits
            /\ edits' = edits + 1
            /\ LET w == AddRun(World, d, css_type, pos)
               IN  /\ FreeSlot(World)
                   /\ Fits(w)
                   /\ Install(w)
       ELSE /\ pos = "after"
            /\ Refused
            /\ UNCHANGED edits

\* the user changes the text of derived view v to s
TypeInSub(v, s) ==
    /\ Quiet
    /\ sub[v].open
    /\ s # sub[v].text
    /\ edits < MaxEdits
    /\ Install([World EXCEPT !.sub[v].text = s])
    /\ edits' = edits + 1

\* the user runs save_sub_css_source in derived view v
SaveBack(v) ==
    /\ Quiet
    /\ sub[v].open
    /\ LET w == SaveSubCssSourceRun(World, v)
       IN  Fits(w) /\ Install(w)
    /\ UNCHANGED edits

\* the user closes the view v (a source view or a derived view)
CloseView(v) ==
    /\ Quiet
    /\ IsOpen(World, v)
    /\ LET w == CloseViewRun(World, v)
       IN  Fits(w) /\ Install(w)
    /\ UNCHANGED edits

\* the offsets of source view d the user edits at: the second and the last
\* character of each marked region
EditPoints(d) ==
    UNION {{regions[d][t][1].a + 1, regions[d][t][1].b - 1} :
              t \in {u \in Types : regions[d][u] # <<>>}}

\* the user deletes the character at offset p of source view d
DeleteChar(d, p) ==
    /\ Quiet
    /\ IsOpen(World, d) /\ ~read_only[d]
    /\ edits < MaxEdits
    /\ p < Len(text[d])
    /\ LET w == view_erase(World, d, p, 1)
       IN  Fits(w) /\ Install(w)
    /\ edits' = edits + 1

\* the oldest check_regions timeout fires
TimerFires ==
    /\ Quiet
    /\ timers # <<>>
    /\ LET t == Head(timers)
       IN  Install(check_regions([World EXCEPT !.timers = Tail(@)], t.d, t.i))
    /\ UNCHANGED edits

\* the scheduled 'save' callbacks of source view d run
RunSave(d) ==
    /\ saves[d]
    /\ Install([World EXCEPT !.saves[d] = FALSE])
    /\ UNCHANGED edits

\* the host moves the sheet of view v to group g and shows it there; a group
\* that loses its only selected sheet shows the first of its other sheets
move_to_group(w, v, g) ==
    LET old == w.group[v]
        w1 == [w EXCEPT !.group[v] = g,
                        !.selected = {u \in @ : w.group[u] # g /\ u # v} \cup {v}]
        left == SelectSeq(w1.views, LAMBDA u : u # v /\ w1.group[u] = old)
    IN  IF left # <<>> /\ \A u \in w1.selected : w1.group[u] # old
        THEN [w1 EXCEPT !.selected = @ \cup {Head(left)}]
        ELSE w1

\* the user moves the tab of derived view v to group g (the last group of
\* the window, in Next); nothing happens if it is there already
MoveView(v, g) ==
    /\ Quiet
    /\ sub[v].open
    /\ IF group[v] = g THEN UNCHANGED <<text, regions, count, views, sub, selected, group,
                                        inst, pending, timers, saves, status, loc, cfg,
                                        file_name, read_only, room, num_groups>>
       ELSE Install(move_to_group(World, v, g))
    /\ UNCHANGED edits

Positions == {"after", "end"}

\* the views the user closes: the derived views and the main color scheme
Closable == SubIds \cup {1}

Next ==
    \/ \E d \in Docs, t \in RequestTypes, pos \in Positions : StartEdit(d, t, pos)
    \/ \E d \in Docs, t \in RequestTypes, pos \in Positions : AddEdit(d, t, pos)
    \/ \E v \in SubIds, s \in SubTexts : TypeInSub(v, s)
    \/ \E v \in SubIds : SaveBack(v)
    \/ \E v \in Closable : CloseView(v)
    \/ \E d \in Docs : \E p \in EditPoints(d) : DeleteChar(d, p)
    \/ \E v \in SubIds : MoveView(v, num_groups - 1)
    \/ TimerFires
    \/ \E d \in Docs : RunSave(d)

Spec == Init /\ [][Next]_vars

\* the main files under the settings that differ from the defaults in one key
InitNoSplit == Start(MainFiles, Flip("open_as_split"), MaxTimers, 1, 0, 0)

SpecNoSplit == InitNoSplit /\ [][Next]_vars

InitTrim == Start(MainFiles, Flip("trim"), MaxTimers, 1, 0, 0)

SpecTrim == InitTrim /\ [][Next]_vars

InitNoSave == Start(MainFiles, Flip("save_on_update"), MaxTimers, 1, 0, 0)

SpecNoSave == InitNoSave /\ [][Next]_vars

InitKeep == Start(MainFiles, Flip("update_on_close"), MaxTimers, 1, 0, 0)

SpecKeep == InitKeep /\ [][Next]_vars

\* the main files under the default settings, with room for one more timeout,
\* so that an edit can arrive while the timeout of the edit before it waits
InitBurst == Start(MainFiles, DefaultSettings, MaxTimers + 1, 1, 0, 0)

SpecBurst == InitBurst /\ [][Next]_vars

\* the main files under the default settings in the first group of a window
\* with two groups; one change to the text of views is explored
InitGroups == Start(MainFiles, DefaultSettings, MaxTimers, 2, 0, MaxEdits - 1)

SpecGroups == InitGroups /\ [][Next]_vars

\* color schemes with CSS keys outside of the globals section
InitNested == Start(NestedFiles, DefaultSettings, MaxTimers, 1, 0, 0)

SpecNested == InitNested /\ [][Next]_vars

TypeOK ==
    /\ \A d \in Docs : Len(count[d]) <= 1
    /\ \A d \in Docs, t \in Types : Len(regions[d][t]) <= 1
    /\ edits \in 0..MaxEdits


----------------------------------------------------------------------------
(* Properties                                                              *)

\* the state the step leads to, as the handlers see it
After == World'

\* the open derived views recorded for content type t of source view d
DerivedOf(d, t) ==
    {v \in SubIds : sub[v].open /\ sub[v].type = t /\ sub[v].source = file_name[d]}

\* C1: every step that marks a span for (d, t) that had none leaves exactly
\* one marked span, find_css_view(d, t) then returns a derived view whose
\* recorded type is t and whose recorded source is the path of d, which is
\* the view the step created if it created one, and find_source_view of that
\* view returns d
C1_StartEditLinksPeers ==
    [][\A d \in Docs, t \in Types :
          (IsOpen(World, d) /\ regions[d][t] = <<>> /\ regions'[d][t] # <<>>) =>
              /\ Len(regions'[d][t]) = 1
              /\ find_css_view(After, file_name[d], t) # NoView
              /\ LET v == find_css_view(After, file_name[d], t)
                 IN  /\ sub'[v].type = t
                     /\ sub'[v].source = file_name[d]
                     /\ \A u \in SubIds : (~sub[u].open /\ sub'[u].open) => u = v
                     /\ find_source_view(After, v) = d]_vars

\* C2: while a span is marked for (d, t), edit_color_scheme_css(t) on d
\* changes nothing at all: there is still one marked span, no derived view
\* is created or linked and the counter keeps its value
C2_ReRequestIsNoOp ==
    \A d \in Docs, t \in Types, pos \in Positions :
        (IsOpen(World, d) /\ regions[d][t] # <<>>) =>
            /\ Len(regions[d][t]) = 1
            /\ EditCommand(World, d, t, pos) = World

\* a span is marked for a key the locator finds, its derived view is open,
\* and the command asked for again is refused
C2_Requested ==
    \E d \in Docs, t \in Types :
        /\ IsOpen(World, d) /\ regions[d][t] # <<>>
        /\ DerivedOf(d, t) # {}
        /\ count[d] = <<1>>
        /\ Locate(World, d, t).st = "found"
        /\ ~EditIsEnabled(World, d, t)
        /\ EditCommand(World, d, t, "after") = World

\* derived view v is open, its source view is open and the span of its type
\* is marked there and valid
CanSave(v) ==
    /\ sub[v].open
    /\ find_source_view(World, v) # NoView
    /\ LET d == find_source_view(World, v)
       IN  /\ regions[d][sub[v].type] # <<>>
           /\ is_valid_css_region(text[d], regions[d][sub[v].type])

\* the text of derived view v that a save-back encodes
Kept(v) == IF cfg.trim THEN trim_trailing_white_space(sub[v].text) ELSE sub[v].text

\* SavedAs(v, s): the save-back of derived view v leaves one marked span that
\* holds the encoding of s and decodes to s
SavedAs(v, s) ==
    LET d == find_source_view(World, v)
        w == SaveSubCssSourceRun(World, v)
        r == w.regions[d][sub[v].type]
    IN  /\ Len(r) = 1
        /\ Substr(w.text[d], r[1]) = encode_value(s)
        /\ decode_value(Substr(w.text[d], r[1])) = [ok |-> TRUE, val |-> s]

\* C3 (as stated): a save-back of a derived view that holds S leaves the
\* marked span with the encoding of S, which decodes to exactly S
C3_SaveBackKeepsText == \A v \in SubIds : CanSave(v) => SavedAs(v, sub[v].text)

\* C3 (amended): a save-back of a derived view that holds S leaves the marked
\* span with the encoding of S without its trailing white space when trimming
\* on save is on, and of exactly S otherwise; the span decodes to that text
C3_SaveBackRoundTrip == \A v \in SubIds : CanSave(v) => SavedAs(v, Kept(v))

\* a save-back has just trimmed "a " to "a" and written it to the span
C3_TrimmedAndSaved ==
    \E v \in SubIds :
        /\ CanSave(v)
        /\ sub[v].type = "popup_css" /\ sub[v].text = <<"a">>
        /\ LET d == find_source_view(World, v)
           IN  /\ saves[d]
               /\ Substr(text[d], regions[d]["popup_css"][1]) = <<QUOTE, "a", QUOTE>>

\* C4: closing an open source view d closes every open derived view recorded
\* for d and leaves d without marked spans and without the counter
C4_CloseSourceClosesDerived ==
    \A d \in Docs :
        IsOpen(World, d) =>
            LET w == CloseViewRun(World, d)
            IN  /\ \A v \in SubIds :
                      (sub[v].open /\ sub[v].source = file_name[d]) => ~w.sub[v].open
                /\ \A t \in Types : w.regions[d][t] = <<>>
                /\ w.count[d] = <<>>

\* the armed timeouts of listener instance i of view d
TimeoutsOf(d, i) == {j \in 1..Len(timers) : timers[j] = [d |-> d, i |-> i]}

\* a scan of view d is due: some listener instance of d has timeouts waiting
\* and the last of them to fire brings its pending counter to zero
ScanDue(d) ==
    \E i \in InstIds :
        TimeoutsOf(d, i) # {} /\ pending[d][i] = Cardinality(TimeoutsOf(d, i))

\* C5: whenever a marked span of an open source view is not valid, a scan of
\* that view is due, so that the span is removed and the counter lowered
\* when the debounce window ends without a further edit; the counter is
\* never negative
C5_InvalidSpanIsSwept ==
    \A d \in Docs :
        /\ CountOf(World, d) >= 0
        /\ \A t \in Types :
              (IsOpen(World, d) /\ regions[d][t] # <<>>
                  /\ ~is_valid_css_region(text[d], regions[d][t])) => ScanDue(d)

\* the encoded text a save-back of derived view v hands to the replace
Encoded(v) == encode_value(Kept(v))

\* the save-back of v moved the span to somewhere the host's own region
\* tracking of the replace did not put it
ManualExtension(v) ==
    LET d == find_source_view(World, v)
        t == sub[v].type
    IN  SaveSubCssSourceRun(World, v).regions[d][t]
            # view_replace(World, d, regions[d][t][1], Encoded(v)).regions[d][t]

\* the span of the type of v after the save-back of v covers exactly the new
\* literal
CoversNewLiteral(v) ==
    LET d == find_source_view(World, v)
        t == sub[v].type
        a == regions[d][t][1].a
        w == SaveSubCssSourceRun(World, v)
    IN  /\ w.regions[d][t] = <<Reg(a, a + Len(Encoded(v)))>>
        /\ Substr(w.text[d], Reg(a, a + Len(Encoded(v)))) = Encoded(v)

\* the length of the span a save-back of v replaces
OldLength(v) == RSize(regions[find_source_view(World, v)][sub[v].type][1])

C7_SaveOntoInvalidSpan ==
    \A v \in SubIds :
        (/\ sub[v].open
         /\ find_source_view(World, v) # NoView
         /\ Len(regions[find_source_view(World, v)][sub[v].type]) = 1
         /\ ~is_valid_css_region(text[find_source_view(World, v)],
                                 regions[find_source_view(World, v)][sub[v].type])) =>
            LET d == find_source_view(World, v)
                t == sub[v].type
                w == SaveSubCssSourceRun(World, v)
            IN  /\ w.text = text
                /\ w.regions[d][t] = <<>>
                /\ \A u \in Types \ {t} : w.regions[d][u] = regions[d][u]
                /\ CountOf(w, d) = Max(CountOf(World, d) - 1, 0)
                /\ w.msg = "missing or invalid"
                /\ w.saves = saves

\* a save-back has just found its span damaged: the user was told, the span
\* is gone, the damaged text is still there and no save is scheduled
C7_Reported ==
    /\ status = "missing or invalid"
    /\ \E v \in SubIds :
          /\ sub[v].open
          /\ find_source_view(World, v) # NoView
          /\ regions[find_source_view(World, v)][sub[v].type] = <<>>
    /\ text[1] # TextMain
    /\ \A d \in Docs : ~saves[d]

\* C8: a save-back in a derived view whose source is not open only sets the
\* status message: no text, span, counter or derived view changes, and the
\* derived view is not trimmed
C8_SaveWithoutSource ==
    \A v \in SubIds :
        (sub[v].open /\ find_source_view(World, v) = NoView) =>
            SaveSubCssSourceRun(World, v) = log(World, "unable to find the source file")

\* a save-back has just been given up in a derived view whose source is
\* closed, and the trailing blank of the derived view is still there
C8_Aborted ==
    /\ status = "unable to find the source file"
    /\ cfg.trim
    /\ \E v \in SubIds :
          /\ sub[v].open
          /\ find_source_view(World, v) = NoView
          /\ sub[v].text = <<"a", " ">>

\* C9: edit_color_scheme_css(t) on a value that does not decode only sets the
\* status message: no span is marked, the counter keeps its value and no
\* derived view is created or linked
C9_DecodeFailure ==
    \A d \in Docs, t \in Types, pos \in Positions :
        (/\ IsOpen(World, d)
         /\ EditIsEnabled(World, d, t)
         /\ ~decode_value(Substr(text[d], Locate(World, d, t).val)).ok) =>
            EditCommand(World, d, t, pos) = log(World, "unable to decode")

\* the command has just given up on the value "\a": the user was told and
\* nothing is marked, counted or opened
C9_Reported ==
    /\ status = "unable to decode"
    /\ text[1] = TextBadEscape
    /\ \A d \in Docs : count[d] = <<>> /\ \A t \in Types : regions[d][t] = <<>>
    /\ \A v \in SubIds : ~sub[v].open

\* the conditions on the document that both commands share
DocumentOk(d, t) ==
    /\ t \in Types
    /\ ~read_only[d]
    /\ file_name[d] # <<>>
    /\ file_name[d][Len(file_name[d])] = COLOR_SCHEME_EXT

\* the locator finds key t in view d
KeyFound(d, t) == t \in Types /\ Locate(World, d, t).st = "found"

\* C10: edit_color_scheme_css(t) is enabled exactly when t is a known type,
\* the document is writable and a color scheme, the locator finds key t and
\* no span is marked for t; add_color_scheme_css(t) is enabled exactly when
\* the same holds of the document and the locator does not find key t; the
\* two are never enabled together
C10_Enablement ==
    \A d \in Docs, t \in RequestTypes :
        IsOpen(World, d) =>
            /\ EditIsEnabled(World, d, t)
                 <=> (DocumentOk(d, t) /\ KeyFound(d, t) /\ regions[d][t] = <<>>)
            /\ AddIsEnabled(World, d, t) <=> (DocumentOk(d, t) /\ ~KeyFound(d, t))
            /\ ~(EditIsEnabled(World, d, t) /\ AddIsEnabled(World, d, t))

\* C10, where the locator answers: in the states in which the locator ends
\* without an exception for key t, the two equivalences of C10 hold
C10_EnablementWhereLocatorAnswers ==
    \A d \in Docs, t \in RequestTypes :
        (IsOpen(World, d) /\ (t \in Types => Locate(World, d, t).st # "raise")) =>
            /\ EditIsEnabled(World, d, t)
                 <=> (DocumentOk(d, t) /\ KeyFound(d, t) /\ regions[d][t] = <<>>)
            /\ AddIsEnabled(World, d, t) <=> (DocumentOk(d, t) /\ ~KeyFound(d, t))

\* C11: closing an open derived view of type t whose source view d is open
\* leaves no span marked for t on d, lowers the counter of d by exactly one
\* (not below zero) and leaves the spans of the other types marked
C11_CloseDerivedLowersByOne ==
    \A v \in SubIds :
        (sub[v].open /\ find_source_view(World, v) # NoView) =>
            LET d == find_source_view(World, v)
                t == sub[v].type
                w == CloseViewRun(World, v)
            IN  /\ w.regions[d][t] = <<>>
                /\ CountOf(w, d) = Max(CountOf(World, d) - 1, 0)
                /\ \A u \in Types \ {t} : (w.regions[d][u] # <<>>) <=> (regions[d][u] # <<>>)

\* the open derived views recorded for type t of source view d in world w
DerivedIn(w, d, t) ==
    {v \in SubIds : w.sub[v].open /\ w.sub[v].type = t /\ w.sub[v].source = file_name[d]}

\* C12: whenever no span is marked for (d, t), whatever was torn down
\* before, and the document conditions hold and the locator finds key t,
\* edit_color_scheme_css(t) is enabled, and when it has marked a span there
\* is exactly one marked span and exactly one open derived view for (d, t)
C12_ReopenAfterTeardown ==
    \A d \in Docs, t \in Types, pos \in Positions :
        (/\ IsOpen(World, d)
         /\ regions[d][t] = <<>>
         /\ DocumentOk(d, t) /\ KeyFound(d, t)
         /\ EditCreates(World, d, t) => FreeSlot(World)) =>
            /\ EditIsEnabled(World, d, t)
            /\ LET w == EditCommand(World, d, t, pos)
               IN  w.regions[d][t] # <<>> =>
                       /\ Len(w.regions[d][t]) = 1
                       /\ Cardinality(DerivedIn(w, d, t)) = 1

\* the offset of the first opening brace of txt, -1 if there is none
FirstBrace(txt) ==
    IF \A i \in 1..Len(txt) : txt[i] # "{" THEN -1
    ELSE (CHOOSE i \in 1..Len(txt) : txt[i] = "{" /\ \A j \in 1..(i - 1) : txt[j] # "{") - 1

\* add_color_scheme_css(t) is enabled on the open view d, which has no
\* "globals" key, and the model has a view id left for the derived view
AddsGlobals(d, t) ==
    /\ IsOpen(World, d)
    /\ AddIsEnabled(World, d, t)
    /\ \A i \in 1..Len(text[d]) : text[d][i] # "globals"
    /\ FreeSlot(World)

\* C13: add_color_scheme_css(t) on a document without a globals key and
\* without an opening brace only reports that; otherwise it inserts the
\* globals section with the key t and the value "" right after the first
\* opening brace and opens t: one span is marked, it is the value that the
\* locator now finds for t, it holds "", the counter went up by one and one
\* derived view for (d, t) is open, with an empty buffer
C13_AddWithoutGlobals ==
    \A d \in Docs, t \in Types, pos \in Positions :
        AddsGlobals(d, t) =>
            LET w == AddRun(World, d, t, pos)
                p == FirstBrace(text[d]) + 1
            IN  IF FirstBrace(text[d]) < 0
                THEN w = log(World, "unable to determine where to insert")
                ELSE /\ w.text[d] = SubSeq(text[d], 1, p) \o GlobalsStub(t)
                                        \o SubSeq(text[d], p + 1, Len(text[d]))
                     /\ \A e \in Docs \ {d} : w.text[e] = text[e]
                     /\ Len(w.regions[d][t]) = 1
                     /\ w.regions[d][t][1] = LocOf(w.text[d])[t].val
                     /\ LocOf(w.text[d])[t].st = "found"
                     /\ w.regions[d][t][1].a >= p
                     /\ w.regions[d][t][1].b <= p + Len(GlobalsStub(t))
                     /\ Substr(w.text[d], w.regions[d][t][1]) = <<QUOTE, QUOTE>>
                     /\ CountOf(w, d) = CountOf(World, d) + 1
                     /\ Cardinality(DerivedIn(w, d, t)) = 1
                     /\ \A v \in DerivedIn(w, d, t) : w.sub[v].text = <<>> /\ ~sub[v].open

\* add_color_scheme_css(popup_css) has just run on the document {}: the
\* globals section is in the text, the new "" is marked and its derived
\* view is open and empty
C13_Added ==
    /\ text[1] = <<"{">> \o GlobalsStub("popup_css") \o <<"}">>
    /\ Len(regions[1]["popup_css"]) = 1
    /\ Substr(text[1], regions[1]["popup_css"][1]) = <<QUOTE, QUOTE>>
    /\ count[1] = <<1>>
    /\ \E v \in DerivedOf(1, "popup_css") : sub[v].text = <<>>

\* add_color_scheme_css has just given up on a document without any text
C13_NowhereToInsert ==
    /\ status = "unable to determine where to insert"
    /\ \E d \in Docs : IsOpen(World, d) /\ text[d] = <<>>

\* the content types that have a marked span on source view d
Marked(d) == {t \in Types : regions[d][t] # <<>>}

\* C14: in every reachable state the counter of an open source view (zero
\* when the setting is absent) is the number of content types that have a
\* marked span on it, so the counter exists whenever a span is marked
C14_CounterAgreesWithSpans ==
    \A d \in Docs : IsOpen(World, d) => CountOf(World, d) = Cardinality(Marked(d))

\* the world in which the oldest timeout has left the queue and is about to
\* run
Fired == [World EXCEPT !.timers = Tail(@)]

\* the regions of view d as a scan leaves them: the marked spans that are
\* not valid are gone, the others are as they were
Scanned(d) ==
    [t \in Types |->
        IF regions[d][t] # <<>> /\ ~is_valid_css_region(text[d], regions[d][t])
        THEN <<>> ELSE regions[d][t]]

\* an edit of the text of view d, seen by its live listener, adds one to the
\* pending counter of that listener and arms one timeout for it
EditArmsOneTimeout ==
    \A d \in Docs : \A p \in EditPoints(d) :
        (IsOpen(World, d) /\ inst[d] # 0 /\ p < Len(text[d])) =>
            LET w == view_erase(World, d, p, 1)
            IN  /\ w.pending[d][inst[d]] = pending[d][inst[d]] + 1
                /\ w.timers = Append(timers, [d |-> d, i |-> inst[d]])

\* the timeout that fires takes one from the pending counter of its
\* listener, which stays at zero or above, and scans the view exactly when
\* the counter is then zero
TimeoutScansAtZero ==
    timers # <<>> =>
        LET d == Head(timers).d
            i == Head(timers).i
            w == check_regions(Fired, d, i)
        IN  /\ w.pending[d][i] = pending[d][i] - 1
            /\ w.pending[d][i] >= 0
            /\ w.text = text /\ w.sub = sub
            /\ IF w.pending[d][i] = 0 /\ IsOpen(World, d)
               THEN w.regions[d] = Scanned(d)
               ELSE w.regions = regions /\ w.count = count

\* C15 (as stated): edits arm timeouts and timeouts scan at zero as above,
\* no pending counter is negative, and the timeout that fires scans exactly
\* when it is the last armed timeout of its view: a burst of edits of a view
\* ends in one scan
C15_OneScanPerBurst ==
    /\ EditArmsOneTimeout
    /\ TimeoutScansAtZero
    /\ \A d \in Docs, i \in InstIds : pending[d][i] >= 0
    /\ timers # <<>> =>
          (pending[Head(timers).d][Head(timers).i] = 1
              <=> \A j \in 2..Len(timers) : timers[j].d # Head(timers).d)

\* C15 (amended): edits arm timeouts and timeouts scan at zero as above, no
\* pending counter is negative, and the timeout that fires scans exactly
\* when it is the last armed timeout of its listener instance: a burst of
\* edits seen by one listener instance ends in one scan by that instance
C15_OneScanPerListenerBurst ==
    /\ EditArmsOneTimeout
    /\ TimeoutScansAtZero
    /\ \A d \in Docs, i \in InstIds : pending[d][i] >= 0
    /\ timers # <<>> =>
          (pending[Head(timers).d][Head(timers).i] = 1
              <=> \A j \in 2..Len(timers) : timers[j] # Head(timers))

\* a burst is under way: the live listener of a view with a damaged marked
\* span has seen two edits, and both of its timeouts are still armed
C15_BurstUnderWay ==
    \E d \in Docs :
        /\ inst[d] # 0
        /\ pending[d][inst[d]] = 2
        /\ timers = <<[d |-> d, i |-> inst[d]], [d |-> d, i |-> inst[d]]>>
        /\ \E t \in Types :
              regions[d][t] # <<>> /\ ~is_valid_css_region(text[d], regions[d][t])

\* the derived view that start-edit of type t in d would link, or NoView
Linked(d, t) ==
    IF /\ EditIsEnabled(World, d, t)
       /\ decode_value(Substr(text[d], Locate(World, d, t).val)).ok
       /\ cs_setting("open_as_split")
    THEN find_css_view(World, file_name[d], t)
    ELSE NoView

\* C16: when start-edit finds an existing derived view of the same source and
\* type and multi-view linking is on, no view is created, and the selection
\* changes only if the source and the derived view are in the same group
\* (the first group included) and the source is selected; otherwise the
\* selection stays as it is.
C16_LinkOnlyInSameGroup ==
    \A d \in Docs, t \in Types, pos \in Positions :
        LET v == Linked(d, t)
            w == EditCommand(World, d, t, pos)
        IN  v # NoView =>
                /\ w.sub = sub
                /\ w.views = views
                /\ ~(group[d] = group[v] /\ d \in selected) => w.selected = selected

\* the spans of the text of d, and short lists of them
Spans(d) == UNION {{Reg(a, b) : b \in a..Len(text[d])} : a \in 0..Len(text[d])}

\* the lists of spans a validity test is given: none, one, or the same span
\* twice
SpanLists(d) ==
    {<<>>} \cup {<<r>> : r \in Spans(d)} \cup {<<r, r>> : r \in Spans(d)}

\* a span of at least two characters that begins and ends with a double quote
Quoted(d, r) == r.b - r.a >= 2 /\ text[d][r.a + 1] = QUOTE /\ text[d][r.b] = QUOTE

\* C17: is_valid_css_region is true exactly for a list of one span that is at
\* least two characters long and begins and ends with a double quote; the
\* empty literal is valid, a span of no or one character is not.
C17_ValidIffOneQuotedSpan ==
    \A d \in Docs : \A rs \in SpanLists(d) :
        is_valid_css_region(text[d], rs) <=> (Len(rs) = 1 /\ Quoted(d, rs[1]))

\* a marked empty literal that is valid next to a marked span that is not
C17_EmptyLiteralMarked ==
    \E d \in Docs : \E t \in Types, u \in Types :
        /\ regions[d][t] # <<>> /\ regions[d][u] # <<>>
        /\ RSize(regions[d][t][1]) = 2
        /\ is_valid_css_region(text[d], regions[d][t])
        /\ ~is_valid_css_region(text[d], regions[d][u])

\* the deltas a counter update is given
Deltas == (0 - MaxSubViews - 1)..(MaxSubViews + 1)

\* the counter of d, 0 when the setting is absent
OldCount(d) == IF count[d] = <<>> THEN 0 ELSE count[d][1]

\* C18: update_css_child_count(view, delta) sets the counter to old + delta
\* (old is 0 when absent) when that sum is positive and removes the setting
\* when the sum is zero or negative; so the counter is absent or positive in
\* every reachable state.
C18_CounterAbsentOrPositive ==
    \A d \in Docs :
        /\ count[d] = <<>> \/ (Len(count[d]) = 1 /\ count[d][1] > 0)
        /\ \A delta \in Deltas :
               update_css_child_count(World, d, delta).count[d] =
                   IF OldCount(d) + delta > 0 THEN <<OldCount(d) + delta>> ELSE <<>>

\* the counter of a source was set and has been removed again: a derived view
\* of the source is open and the source has no counter
C18_CounterRemoved ==
    \E d \in Docs, v \in SubIds :
        /\ sub[v].open
        /\ sub[v].source = file_name[d]
        /\ count[d] = <<>>

\* the text of d has key t one level inside the value of its top-level key
\* "globals": the quoted name is a key at nesting depth 2 and lies in the
\* span of the value of globals
KeyInGlobals(d, t) ==
    LET sc == Scopes(text[d])
        g == get_global_region(text[d], sc)
    IN  /\ g.st = "found"
        /\ \E i \in 2..(Len(text[d]) - 1) :
               /\ text[d][i] = t
               /\ text[d][i - 1] = QUOTE /\ text[d][i + 1] = QUOTE
               /\ sc[i].k = 2
               /\ g.val.a <= i - 2 /\ i + 1 <= g.val.b

\* C19: the locator finds a CSS key only one level inside the globals section:
\* global_css_key(T) finds nothing when globals is absent or does not contain
\* T, even if a key named T is in another section or nested deeper.
C19_KeyOnlyInsideGlobals ==
    \A d \in Docs, t \in Types :
        ~KeyInGlobals(d, t) => Locate(World, d, t).st # "found"

\* the keys and values below the top level of the text of d, in document order
NestedKeys(d) == find_by_selector(Scopes(text[d]), "meta.mapping.value meta.mapping.key")

NestedValues(d) == find_by_selector(Scopes(text[d]), "meta.mapping.value meta.mapping.value")

\* the values of d that start after offset p
StartingAfter(d, p) == {i \in 1..Len(NestedValues(d)) : NestedValues(d)[i].a > p}

\* C20: a key is matched with the value region whose start is the smallest
\* one strictly greater than the start of the key; when no value region
\* starts after the key, the locator reports NotFound and does not fail.
C20_ValueFollowsKey ==
    \A d \in Docs, t \in Types :
        LET k == find_key_region(text[d], t, NestedKeys(d))
            later == StartingAfter(d, k[1].a)
            first == CHOOSE i \in later :
                         \A j \in later : NestedValues(d)[i].a <= NestedValues(d)[j].a
        IN  (k # <<>> /\ get_global_region(text[d], Scopes(text[d])).st = "found") =>
                IF later = {} THEN Locate(World, d, t) = LocNone
                ELSE Locate(World, d, t) = LocFound(k[1], NestedValues(d)[first])

\* the same for the keys that have a value region after them
C20_ValueFollowsKeyWhereOneDoes ==
    \A d \in Docs, t \in Types :
        LET k == find_key_region(text[d], t, NestedKeys(d))
            later == StartingAfter(d, k[1].a)
            first == CHOOSE i \in later :
                         \A j \in later : NestedValues(d)[i].a <= NestedValues(d)[j].a
        IN  (k # <<>> /\ get_global_region(text[d], Scopes(text[d])).st = "found"
                      /\ later # {}) =>
                Locate(World, d, t) = LocFound(k[1], NestedValues(d)[first])

\* C21: in every reachable state, whatever open_as_split is, at most one
\* derived view is open for a source path and a content type, also after a
\* span was invalidated while its derived view stayed open and the edit
\* command was asked for again.
C21_OneDerivedPerSourceAndType ==
    \A d \in Docs, t \in Types : Cardinality(DerivedOf(d, t)) <= 1

\* C22: in every reachable state, a span marked for content type t on an open
\* source view d has an open derived view with recorded type t and recorded
\* source d; no span stays marked after its last derived view has closed.
C22_NoDanglingMark ==
    \A d \in Docs, t \in Types :
        (IsOpen(World, d) /\ regions[d][t] # <<>>) => DerivedOf(d, t) # {}

\* a derived view has been closed (the first view id is free again) while
\* the span of another derived view, opened before that, is still marked
C22_OneClosedOneMarked ==
    \E d \in Docs, v \in SubIds :
        /\ \E u \in SubIds : u < v /\ ~sub[u].open
        /\ sub[v].open
        /\ IsOpen(World, d)
        /\ sub[v].source = file_name[d]
        /\ regions[d][sub[v].type] # <<>>
        /\ \A t \in Types \ {sub[v].type} : regions[d][t] = <<>>

\* the content types whose span on d is marked and not valid
Invalid(d) ==
    {t \in Types : regions[d][t] # <<>> /\ ~is_valid_css_region(text[d], regions[d][t])}

\* C23: the timeout that fires changes no text, closes or changes no derived
\* view and leaves every valid span marked as it is; when it scans it removes
\* exactly the spans that are marked and not valid and lowers the counter of
\* the view by one for each span it removes; the spans and counters of other
\* views stay as they are.
C23_SweepFrame ==
    timers # <<>> =>
        LET d == Head(timers).d
            w == check_regions(Fired, d, Head(timers).i)
            removed == {t \in Types : regions[d][t] # <<>> /\ w.regions[d][t] = <<>>}
        IN  /\ w.text = text
            /\ w.sub = sub /\ w.views = views
            /\ \A t \in Types \ Invalid(d) : w.regions[d][t] = regions[d][t]
            /\ \A t \in Types : w.regions[d][t] \in {<<>>, regions[d][t]}
            /\ removed \in {{}, Invalid(d)}
            /\ CountOf(w, d) = CountOf(World, d) - Cardinality(removed)
            /\ \A o \in Docs \ {d} : w.regions[o] = regions[o] /\ w.count[o] = count[o]

\* the same frame in the states in which the counter of the scanned view is
\* the number of its marked spans
C23_SweepFrameWhereCounterAgrees ==
    (timers # <<>> /\ CountOf(World, Head(timers).d) = Cardinality(Marked(Head(timers).d)))
        => C23_SweepFrame

\* the frame with the counter lowered by one for each removed span, but not
\* below zero
C23_SweepFrameClamped ==
    timers # <<>> =>
        LET d == Head(timers).d
            w == check_regions(Fired, d, Head(timers).i)
            removed == {t \in Types : regions[d][t] # <<>> /\ w.regions[d][t] = <<>>}
        IN  /\ w.text = text
            /\ w.sub = sub /\ w.views = views
            /\ \A t \in Types \ Invalid(d) : w.regions[d][t] = regions[d][t]
            /\ removed \in {{}, Invalid(d)}
            /\ CountOf(w, d) = Max(CountOf(World, d) - Cardinality(removed), 0)
            /\ \A o \in Docs \ {d} : w.regions[o] = regions[o] /\ w.count[o] = count[o]

\* what the marked span of content type u on view d of world w decodes to
DecodedSpan(w, d, u) == decode_value(Substr(w.text[d], w.regions[d][u][1]))

\* C24: a save-back in derived view v of type t with source d, successful or
\* not, leaves the counter of d as it is unless it unmarks the span of t;
\* every other marked span of d stays marked, stays valid if it was, and
\* decodes to what it did; no other derived view changes, and the saved one
\* changes only by being trimmed.
C24_SaveBackFrame ==
    \A v \in SubIds :
        (sub[v].open /\ find_source_view(World, v) # NoView) =>
            LET d == find_source_view(World, v)
                t == sub[v].type
                w == SaveSubCssSourceRun(World, v)
            IN  /\ (regions[d][t] = <<>> \/ w.regions[d][t] # <<>>) => w.count[d] = count[d]
                /\ \A u \in Marked(d) \ {t} :
                      /\ w.regions[d][u] # <<>>
                      /\ is_valid_css_region(text[d], regions[d][u])
                             => is_valid_css_region(w.text[d], w.regions[d][u])
                      /\ DecodedSpan(w, d, u) = DecodedSpan(World, d, u)
                /\ \A x \in SubIds \ {v} : w.sub[x] = sub[x]
                /\ w.sub[v] \in {sub[v], [sub[v] EXCEPT !.text = trim_trailing_white_space(@)]}
                /\ w.views = views

\* no two marked spans of view d share a character
SpansApart(d) ==
    \A t \in Marked(d) : \A u \in Marked(d) \ {t} :
        regions[d][t][1].b <= regions[d][u][1].a \/ regions[d][u][1].b <= regions[d][t][1].a

\* the same frame in the states in which the marked spans of the source do
\* not overlap
C24_SaveBackFrameWhereSpansApart ==
    (\A d \in Docs : SpansApart(d)) => C24_SaveBackFrame

====
